---- MODULE Spec2Model ----
(***************************************************************************)
(* Model of aerosol.py: the AerosolSpecies constructor, which turns a      *)
(* size distribution (pre-binned dict, Lognorm, MultiModeLognorm) into bin *)
(* edges, dry radii and number concentrations, and the dist_to_conc        *)
(* quadrature helper.                                                      *)
(*                                                                         *)
(* Numbers.  Python floats are modelled by exact values                    *)
(*     (n / d) * 2^e2 * 5^e5           when root = FALSE                   *)
(*     sqrt((n / d) * 2^e2 * 5^e5)     when root = TRUE                    *)
(* kept in canonical form (d > 0, n and d coprime to each other and to 10, *)
(* zero is 0/1), so that equal values are equal records and a scaling by   *)
(* 1e6 or 1e-6 only moves the exponents e2 and e5.                         *)
(* Rounding of the floating-point operations is not modelled.              *)
(***************************************************************************)
EXTENDS Integers, Sequences, FiniteSets, TLC

VARIABLES pc, op, args, heap, self, exc, population, conc

vars == <<pc, op, args, heap, self, exc, population, conc>>

----------------------------------------------------------------------------
(* Bounds of the model *)

\* most radii and concentrations in a pre-binned dict
MaxK == 2

\* largest integer bin count
MaxBins == 3

\* most edges in a caller-supplied edge sequence
MaxEdges == 2

\* brackets are powers of two 2^k with -MaxLog <= k <= 2 * MaxLog
MaxLog == 12

----------------------------------------------------------------------------
(* Exact arithmetic *)

Abs(x) == IF x < 0 THEN -x ELSE x

Min(a, b) == IF a < b THEN a ELSE b

RECURSIVE Gcd(_, _)
Gcd(a, b) == IF b = 0 THEN a ELSE Gcd(b, a % b)

RECURSIVE IntPow(_, _)
IntPow(b, k) == IF k = 0 THEN 1 ELSE b * IntPow(b, k - 1)

Zero == [n |-> 0, d |-> 1, e2 |-> 0, e5 |-> 0, root |-> FALSE]

\* the exponent of the prime p in m > 0, and m without its factors p
RECURSIVE Expo(_, _)
Expo(m, p) == IF m % p = 0 THEN 1 + Expo(m \div p, p) ELSE 0

RECURSIVE Odd(_, _)
Odd(m, p) == IF m % p = 0 THEN Odd(m \div p, p) ELSE m

\* the canonical record of (n / d) * 2^e2 * 5^e5, d > 0
Norm(n, d, e2, e5) ==
    IF n = 0 THEN Zero
    ELSE LET g  == Gcd(Abs(n), d)
             n1 == Abs(n) \div g
             d1 == d \div g
             m  == Odd(Odd(n1, 2), 5)
         IN  [n    |-> IF n < 0 THEN -m ELSE m,
              d    |-> Odd(Odd(d1, 2), 5),
              e2   |-> e2 + Expo(n1, 2) - Expo(d1, 2),
              e5   |-> e5 + Expo(n1, 5) - Expo(d1, 5),
              root |-> FALSE]

FromInt(i) == Norm(i, 1, 0, 0)

Frac(n, d) == Norm(n, d, 0, 0)

\* product of two plain (non-root) values
Mul(x, y) ==
    LET g1 == Gcd(Abs(x.n), y.d)
        g2 == Gcd(Abs(y.n), x.d)
    IN  Norm((x.n \div g1) * (y.n \div g2),
             (x.d \div g2) * (y.d \div g1), x.e2 + y.e2, x.e5 + y.e5)

Inv(x) ==
    IF x.n < 0 THEN Norm(-x.d, -x.n, -x.e2, -x.e5) ELSE Norm(x.d, x.n, -x.e2, -x.e5)

Div(x, y) == Mul(x, Inv(y))

Add(x, y) ==
    IF x.n = 0 THEN y
    ELSE IF y.n = 0 THEN x
    ELSE LET m2 == Min(x.e2, y.e2)
             m5 == Min(x.e5, y.e5)
             xn == x.n * IntPow(2, x.e2 - m2) * IntPow(5, x.e5 - m5)
             yn == y.n * IntPow(2, y.e2 - m2) * IntPow(5, y.e5 - m5)
             g  == Gcd(x.d, y.d)
         IN  Norm(xn * (y.d \div g) + yn * (x.d \div g), (x.d \div g) * y.d, m2, m5)

Neg(x) == [x EXCEPT !.n = -x.n]

Sub(x, y) == Add(x, Neg(y))

Less(x, y) == Sub(x, y).n < 0

\* np.sqrt of a non-negative value
Sqrt(x) == [x EXCEPT !.root = TRUE]

\* x * 10^k; for a root, sqrt(q) * 10^k = sqrt(q * 10^(2k))
Scale(x, k) ==
    IF x.n = 0 THEN x
    ELSE IF x.root THEN [x EXCEPT !.e2 = x.e2 + 2 * k, !.e5 = x.e5 + 2 * k]
    ELSE [x EXCEPT !.e2 = x.e2 + k, !.e5 = x.e5 + k]

RECURSIVE SumSeq(_)
SumSeq(s) == IF s = <<>> THEN Zero ELSE Add(s[1], SumSeq(Tail(s)))

----------------------------------------------------------------------------
(* Python values *)

None == <<>>

Some(x) == <<x>>

\* truth value of an optional float: None and 0.0 are false
Truthy(o) == o # None /\ o[1].n # 0

\* a list or an ndarray lives in the heap; a reference is its index
Cell(kind, data) == [kind |-> kind, data |-> data]

\* allocation of a new ndarray holding data
Alloc(h, data) == [heap |-> Append(h, Cell("ndarray", data)), ref |-> Len(h) + 1]

\* np.array(x, copy=False): an ndarray argument is returned as it is
NpArrayNoCopy(h, ref) ==
    IF h[ref].kind = "ndarray" THEN [heap |-> h, ref |-> ref] ELSE Alloc(h, h[ref].data)

\* np.array(x): a new ndarray with a copy of the (float) elements of x
NpArray(h, ref) == Alloc(h, h[ref].data)

\* x[:]: a list is copied into a new list, an ndarray yields a view of
\* the same buffer
SliceAll(h, ref) ==
    IF h[ref].kind = "list"
    THEN [heap |-> Append(h, Cell("list", h[ref].data)), ref |-> Len(h) + 1]
    ELSE [heap |-> h, ref |-> ref]

\* arr * 10^k: a new ndarray
TimesPow10(h, ref, k) ==
    Alloc(h, [i \in 1..Len(h[ref].data) |-> Scale(h[ref].data[i], k)])

\* arr *= 10^k: the buffer of arr is rewritten in place
ITimesPow10(h, ref, k) ==
    [h EXCEPT ![ref].data = [i \in 1..Len(h[ref].data) |-> Scale(h[ref].data[i], k)]]

\* arr[0:n] of a freshly built array (n >= 0): a view of its first n
\* elements; the base array is referenced by nothing else, so the view of a
\* proper prefix is kept as a cell of its own
SliceTo(h, ref, n) ==
    IF n >= Len(h[ref].data) THEN [heap |-> h, ref |-> ref]
    ELSE Alloc(h, SubSeq(h[ref].data, 1, n))

----------------------------------------------------------------------------
(* lognorm.Lognorm, lognorm.MultiModeLognorm: the distribution objects.    *)
(* A distribution is a record [type, r_drys, Nis, mus, sigmas, Ns]: a dict *)
(* uses r_drys and Nis (heap references), a Lognorm the one-element mus,   *)
(* sigmas and Ns, a MultiModeLognorm one element per mode.                 *)

Distribution(type, r_drys, Nis, mus, sigmas, Ns) ==
    [type |-> type, r_drys |-> r_drys, Nis |-> Nis,
     mus |-> mus, sigmas |-> sigmas, Ns |-> Ns]

RECURSIVE ModeSum(_, _, _)
ModeSum(dist, r, i) ==
    IF i > Len(dist.mus) THEN Zero
    ELSE Add(Div(dist.Ns[i], Add(dist.mus[i], r)), ModeSum(dist, r, i + 1))

\* dist.pdf(r) for r > 0.  The closed-form lognormal density is not
\* rational; it is represented by a non-negative, non-constant rational
\* density with the same parameters, N_i / (mu_i + r) summed over the
\* modes.  "Const" is a test double whose density is Ns[1] everywhere.
Pdf(dist, r) == IF dist.type = "Const" THEN dist.Ns[1] ELSE ModeSum(dist, r, 1)

\* isinstance(distribution, cls): the three classes are unrelated
IsInstance(dist, cls) == dist.type = cls

----------------------------------------------------------------------------
(* numpy: log10 and logspace.  Logarithms are measured on the grid of the  *)
(* powers of two: log10(x) is the k with x = 2^k (a constant multiple of   *)
(* the decimal logarithm), and logspace raises 2, not 10, to the points of *)
(* linspace, so that logspace(log10(a), log10(b), num) is exactly          *)
(* a * (b/a)^(i/(num-1)) as in numpy.                                      *)

Pow2(k) == IF k >= 0 THEN FromInt(IntPow(2, k)) ELSE Frac(1, IntPow(2, -k))

Log10(x) == CHOOSE k \in -MaxLog..(2 * MaxLog) : Pow2(k) = x

\* np.logspace(lr, rr, num): num samples, end points included.  The calls
\* drawn below keep rr - lr a multiple of 12, so that the points of linspace
\* are whole for up to 5 samples and the edges are exact.
Logspace(lr, rr, num) ==
    IF num = 1 THEN << Pow2(lr) >>
    ELSE [i \in 1..num |-> Pow2(lr + ((i - 1) * (rr - lr)) \div (num - 1))]

----------------------------------------------------------------------------
(* aerosol.dist_to_conc *)

Half == Frac(1, 2)

\* dist_to_conc with the midpoint of Simpson's rule weighted 2, not 4
dist_to_conc_weight2(dist, r_min, r_max, rule) ==
    LET width == Sub(r_max, r_min)
        mid   == Mul(Half, Add(r_max, r_min))
    IN  IF rule = "trapezoid"
        THEN Mul(Mul(width, Half), Add(Pdf(dist, r_max), Pdf(dist, r_min)))
        ELSE IF rule = "simpson"
        THEN Mul(Div(width, FromInt(6)),
                 Add(Add(Pdf(dist, r_max), Pdf(dist, r_min)),
                     Mul(FromInt(2), Pdf(dist, mid))))
        ELSE Mul(width, Pdf(dist, mid))

dist_to_conc(dist, r_min, r_max, rule) ==
    LET width == Sub(r_max, r_min)
        mid   == Mul(Half, Add(r_max, r_min))
    IN  IF rule = "trapezoid"
        THEN Mul(Mul(width, Half), Add(Pdf(dist, r_max), Pdf(dist, r_min)))
        ELSE IF rule = "simpson"
        THEN Mul(Div(width, FromInt(6)),
                 Add(Add(Pdf(dist, r_max), Pdf(dist, r_min)),
                     Mul(FromInt(4), Pdf(dist, mid))))
        ELSE Mul(width, Pdf(dist, mid))

----------------------------------------------------------------------------
(* aerosol.AerosolSpecies.__init__                                         *)
(* self is a record of optional attributes: <<>> while an attribute is not *)
(* set, <<v>> once it is.  r_drys, rs and Nis hold heap references.  The   *)
(* constructor is one step; its outcome is [self, heap, exc].              *)

NoAttrs == [r_drys |-> None, rs |-> None, Nis |-> None, N |-> None, nr |-> None]

Outcome(s, h, x) == [self |-> s, heap |-> h, exc |-> x]

\* isinstance(bins, (list, np.ndarray))
IsEdgeSequence(bins) == bins.kind \in {"list", "ndarray"}

\* the check for a missing bins argument left out
BinsMissingUnchecked(bins) == FALSE

\* bins is None
BinsMissing(bins) == bins.kind = "None"

\* bin centers as arithmetic, not geometric, means of the edges
MidsArithmetic(rs) ==
    IF Len(rs) < 2 THEN <<>>
    ELSE [i \in 1..(Len(rs) - 1) |-> Mul(Half, Add(rs[i], rs[i + 1]))]

\* [np.sqrt(a*b) for a, b in zip(rs[:-1], rs[1:])]
Mids(rs) ==
    IF Len(rs) < 2 THEN <<>>
    ELSE [i \in 1..(Len(rs) - 1) |-> Sqrt(Mul(rs[i], rs[i + 1]))]

\* the bin width taken as a-b
BinConcReversed(dist, a, b) == Mul(Mul(Half, Sub(a, b)), Add(Pdf(dist, a), Pdf(dist, b)))

\* 0.5*(b-a)*(distribution.pdf(a) + distribution.pdf(b))
BinConc(dist, a, b) == Mul(Mul(Half, Sub(b, a)), Add(Pdf(dist, a), Pdf(dist, b)))

\* [0.5*(b-a)*(pdf(a) + pdf(b)) for a, b in zip(rs[:-1], rs[1:])]
Quadrature(dist, rs) ==
    IF Len(rs) < 2 THEN <<>>
    ELSE [i \in 1..(Len(rs) - 1) |-> BinConc(dist, rs[i], rs[i + 1])]

\* the bracket [lr, rr] in log space, or the failure of np.log10(None)
Bracket(lo, hi, r_min, r_max) ==
    IF ~Truthy(r_min) /\ ~Truthy(r_max)
    THEN [exc |-> "None", lr |-> Log10(lo), rr |-> Log10(hi)]
    ELSE IF r_min = None \/ r_max = None
    THEN [exc |-> "TypeError", lr |-> 0, rr |-> 0]
    ELSE [exc |-> "None", lr |-> Log10(r_min[1]), rr |-> Log10(r_max[1])]

\* self.rs: the caller's edges (bins[:]) or np.logspace(lr, rr, num=bins+1)[:]
BinEdges(h, bins, lo, hi, r_min, r_max) ==
    IF IsEdgeSequence(bins)
    THEN LET v == SliceAll(h, bins.ref) IN [exc |-> "None", heap |-> v.heap, ref |-> v.ref]
    ELSE LET br == Bracket(lo, hi, r_min, r_max)
         IN  IF br.exc # "None" THEN [exc |-> br.exc, heap |-> h, ref |-> 0]
             ELSE LET v == Alloc(h, Logspace(br.lr, br.rr, bins.n + 1))
                  IN  [exc |-> "None", heap |-> v.heap, ref |-> v.ref]

\* lines 106-110: the pre-binned dict
InitDict(a, h) ==
    LET dist == a.distribution
        c1   == NpArray(h, dist.r_drys)
        rd   == TimesPow10(c1.heap, c1.ref, -6)
        s1   == [NoAttrs EXCEPT !.r_drys = Some(rd.ref)]
    IN  IF Len(rd.heap[rd.ref].data) = 0 THEN Outcome(s1, rd.heap, "IndexError")
        ELSE
        LET r0  == rd.heap[rd.ref].data[1]
            e1  == Alloc(rd.heap, << Mul(r0, Frac(9, 10)), Mul(r0, Frac(11, 10)) >>)
            rs  == TimesPow10(e1.heap, e1.ref, 6)
            ni  == NpArray(rs.heap, dist.Nis)
            s2  == [s1 EXCEPT !.rs = Some(rs.ref), !.Nis = Some(ni.ref),
                              !.N = Some(SumSeq(ni.heap[ni.ref].data))]
        IN  Outcome(s2, ni.heap, "None")

\* lines 127-130: mids, Nis and r_drys from the edges self.rs
Discretize(dist, s, h) ==
    LET rs    == h[s.rs[1]].data
        nbins == Len(rs)
        m0    == Alloc(h, Mids(rs))
        mids  == SliceTo(m0.heap, m0.ref, nbins)
        n0    == Alloc(mids.heap, Quadrature(dist, rs))
        ni    == SliceTo(n0.heap, n0.ref, nbins)
        rd    == TimesPow10(ni.heap, mids.ref, -6)
    IN  Outcome([s EXCEPT !.Nis = Some(ni.ref), !.r_drys = Some(rd.ref)], rd.heap, "None")

\* lines 112-130: a single-mode Lognorm
InitLognorm(a, h) ==
    LET dist == a.distribution
        ten  == FromInt(10)
    IN  IF BinsMissing(a.bins) THEN Outcome(NoAttrs, h, "ValueError")
        ELSE
        LET ed == BinEdges(h, a.bins,
                           Div(dist.mus[1], Mul(ten, dist.sigmas[1])),
                           Mul(Mul(dist.mus[1], ten), dist.sigmas[1]),
                           a.r_min, a.r_max)
        IN  IF ed.exc # "None" THEN Outcome(NoAttrs, ed.heap, ed.exc)
            ELSE Discretize(dist, [NoAttrs EXCEPT !.rs = Some(ed.ref)], ed.heap)

\* lines 132-152: a MultiModeLognorm; line 150 reads the local nbins, which
\* only the Lognorm branch assigns
InitMultiMode(a, h) ==
    LET dist == a.distribution
        ten  == FromInt(10)
        last == Len(dist.mus)
    IN  IF BinsMissing(a.bins) THEN Outcome(NoAttrs, h, "ValueError")
        ELSE
        LET ed == BinEdges(h, a.bins,
                           Div(dist.mus[1], Mul(ten, dist.sigmas[1])),
                           Mul(Mul(dist.mus[last], ten), dist.sigmas[last]),
                           a.r_min, a.r_max)
        IN  IF ed.exc # "None" THEN Outcome(NoAttrs, ed.heap, ed.exc)
            ELSE Outcome([NoAttrs EXCEPT !.rs = Some(ed.ref)], ed.heap, "UnboundLocalError")

\* lines 157-160: Nis *= 1e6 in place, nr = len(r_drys)
ToSI(o) ==
    IF o.exc # "None" THEN o
    ELSE Outcome([o.self EXCEPT !.nr = Some(Len(o.heap[o.self.r_drys[1]].data))],
                 ITimesPow10(o.heap, o.self.Nis[1], 6), "None")

\* lines 104-160
AerosolSpecies(a, h) ==
    IF IsInstance(a.distribution, "dict") THEN ToSI(InitDict(a, h))
    ELSE IF IsInstance(a.distribution, "Lognorm") THEN ToSI(InitLognorm(a, h))
    ELSE IF IsInstance(a.distribution, "MultiModeLognorm") THEN ToSI(InitMultiMode(a, h))
    ELSE Outcome(NoAttrs, h, "ValueError")

----------------------------------------------------------------------------
(* The calls.  A call is drawn in the initial state: its arguments args    *)
(* and the caller's lists and arrays in heap.                              *)

\* radii of a pre-binned dict, in micrometers (0.25 as in the docstring)
RadiusVals == {Frac(1, 4), FromInt(2)}

\* concentrations of a pre-binned dict, per cubic centimeter
ConcVals == {FromInt(1000), FromInt(250)}

\* values of a caller-supplied edge sequence
EdgeVals == {FromInt(1), FromInt(3)}

\* r_min and r_max: absent, or an end of the bracket [1, 4096]
OptRadii == {None, Some(FromInt(1)), Some(FromInt(4096))}

Sigma == Frac(32, 5)

Lognorms ==
    {Distribution("Lognorm", 0, 0, <<mu>>, <<Sigma>>, <<FromInt(300)>>) :
        mu \in {FromInt(1), FromInt(64)}}

MultiModeLognorms ==
    {Distribution("MultiModeLognorm", 0, 0, mus, <<Sigma, Sigma>>,
                  <<FromInt(300), FromInt(100)>>) :
        mus \in {<<FromInt(1), FromInt(4096)>>, <<FromInt(64), FromInt(64)>>}}

\* the distributions dist_to_conc is called with
QuadDists ==
    Lognorms
    \cup {Distribution("MultiModeLognorm", 0, 0, <<FromInt(1), FromInt(2)>>,
                       <<Sigma, Sigma>>, <<FromInt(300), FromInt(100)>>)}
    \cup {Distribution("Const", 0, 0, <<>>, <<>>, <<FromInt(2)>>)}

\* a distribution argument with the caller's sequences it refers to
DistInputs ==
    {[dist |-> Distribution("dict", 1, 2, <<>>, <<>>, <<>>),
      cells |-> <<Cell(c[1], c[2]), Cell(c[1], c[3])>>] :
        c \in UNION {{"list", "ndarray"} \X [1..k -> RadiusVals] \X [1..k -> ConcVals] :
                        k \in 0..MaxK}}
    \cup {[dist |-> d, cells |-> <<>>] : d \in Lognorms \cup MultiModeLognorms}
    \cup {[dist |-> Distribution("float", 0, 0, <<>>, <<>>, <<>>), cells |-> <<>>]}

\* a bins argument: None, an integer, or a list or ndarray of edges
BinsInputs ==
    {[kind |-> "None", n |-> 0, data |-> <<>>]}
    \cup {[kind |-> "int", n |-> n, data |-> <<>>] : n \in 0..MaxBins}
    \cup {[kind |-> c[1], n |-> 0, data |-> c[2]] :
            c \in UNION {{"list", "ndarray"} \X [1..k -> EdgeVals] : k \in 0..MaxEdges}}

Rules == {"trapezoid", "simpson", "midpoint", "rectangle"}

QuadRadii == {Frac(1, 4), FromInt(1), FromInt(3)}

NoBins == [kind |-> "None", n |-> 0, ref |-> 0]

InitConstruct ==
    \E d \in DistInputs, b \in BinsInputs, lo \in OptRadii, hi \in OptRadii :
        /\ op = "AerosolSpecies"
        /\ heap = IF b.kind \in {"list", "ndarray"}
                  THEN Append(d.cells, Cell(b.kind, b.data)) ELSE d.cells
        /\ args = [distribution |-> d.dist,
                   bins |-> [kind |-> b.kind, n |-> b.n,
                             ref |-> IF b.kind \in {"list", "ndarray"}
                                     THEN Len(d.cells) + 1 ELSE 0],
                   r_min |-> lo, r_max |-> hi, rule |-> "trapezoid"]

InitQuadrature ==
    \E d \in QuadDists,
       lo \in QuadRadii, hi \in QuadRadii, rule \in Rules :
        /\ op = "dist_to_conc"
        /\ heap = <<>>
        /\ args = [distribution |-> d, bins |-> NoBins,
                   r_min |-> Some(lo), r_max |-> Some(hi), rule |-> rule]

Init ==
    /\ pc = "call"
    /\ self = NoAttrs
    /\ exc = "None"
    /\ population = None
    /\ conc = None
    /\ (InitConstruct \/ InitQuadrature)

\* aerosol = AerosolSpecies(species, distribution, kappa, bins=..., ...):
\* the caller obtains the object unless the constructor raises
Construct ==
    /\ pc = "call"
    /\ op = "AerosolSpecies"
    /\ LET o == AerosolSpecies(args, heap)
       IN  /\ self' = o.self
           /\ heap' = o.heap
           /\ exc' = o.exc
           /\ population' = IF o.exc = "None" THEN Some(o.self) ELSE None
    /\ pc' = "done"
    /\ UNCHANGED <<op, args, conc>>

\* conc = dist_to_conc(dist, r_min, r_max, rule)
Quadrate ==
    /\ pc = "call"
    /\ op = "dist_to_conc"
    /\ conc' = Some(dist_to_conc(args.distribution, args.r_min[1], args.r_max[1], args.rule))
    /\ pc' = "done"
    /\ UNCHANGED <<op, args, heap, self, exc, population>>

Next == Construct \/ Quadrate

Spec == Init /\ [][Next]_vars

----------------------------------------------------------------------------
(* Properties *)

Ctor == op = "AerosolSpecies"

Done == pc = "done"

\* the constructor returned an object
Built == Done /\ Ctor /\ exc = "None"

DistType == args.distribution.type

\* the arrays the object holds (meaningful once the attribute is set)
RDrys == heap[self.r_drys[1]].data

Rs == heap[self.rs[1]].data

Nis == heap[self.Nis[1]].data

\* the caller's sequences of a pre-binned dict
GivenRDrys == heap[args.distribution.r_drys].data

GivenNis == heap[args.distribution.Nis].data

IntBins == args.bins.kind = "int"

StrictlyIncreasing(s) == \A i \in 1..(Len(s) - 1) : Less(s[i], s[i + 1])

Positive(x) == x.n > 0

NonNegative(x) == x.n >= 0

\* C1: built from a pre-binned dict, the object's number concentrations
\* equal the supplied concentrations element for element (no 1e6 scaling)
\* and its dry radii equal the supplied radii times 1e-6.
C1_DictNisAsSupplied ==
    (Built /\ DistType = "dict") =>
        /\ Len(Nis) = Len(GivenNis)
        /\ \A i \in 1..Len(Nis) : Nis[i] = GivenNis[i]
        /\ Len(RDrys) = Len(GivenRDrys)
        /\ \A i \in 1..Len(RDrys) : RDrys[i] = Scale(GivenRDrys[i], -6)

\* C2: every constructed object has a total number concentration N that is
\* defined and equals the sum of its final number concentrations.
C2_TotalIsSumOfNis ==
    Built => (self.N # None /\ self.N[1] = SumSeq(Nis))

\* C3: a MultiModeLognorm with an integer bin count n >= 1 (and a usable
\* bracket) constructs: n+1 edges, n dry radii, n concentrations, nr = n.
C3_MultiModeBuilds ==
    (Done /\ Ctor /\ DistType = "MultiModeLognorm" /\ IntBins /\ args.bins.n >= 1
          /\ ((args.r_min = None) <=> (args.r_max = None))) =>
        /\ exc = "None"
        /\ Len(Rs) = args.bins.n + 1
        /\ Len(RDrys) = args.bins.n
        /\ Len(Nis) = args.bins.n
        /\ self.nr = Some(args.bins.n)

\* C4: construction fails with ValueError and yields no object when the
\* distribution is a Lognorm or MultiModeLognorm and bins is absent, or the
\* distribution is of no recognized type, whatever the other arguments.
C4_InvalidConfiguration ==
    (Done /\ Ctor /\ (\/ (DistType \in {"Lognorm", "MultiModeLognorm"} /\ args.bins.kind = "None")
                      \/ DistType \notin {"dict", "Lognorm", "MultiModeLognorm"})) =>
        (exc = "ValueError" /\ population = None)

C4_Witness ==
    /\ Done /\ Ctor /\ DistType = "Lognorm" /\ args.bins.kind = "None"
    /\ args.r_min # None /\ args.r_max # None
    /\ exc = "ValueError"

\* C5: for every distribution variant (a dict with at least one radius, a
\* Lognorm, a MultiModeLognorm, something else), bins absent, integer or an
\* edge sequence, r_min and r_max each absent or present, construction
\* either returns a fully populated object or fails with ValueError; it
\* fails with no other kind of error.
C5_OnlyValueError ==
    (Done /\ Ctor /\ (DistType = "dict" => Len(heap[args.distribution.r_drys].data) >= 1)) =>
        \/ exc = "ValueError"
        \/ (exc = "None" /\ population # None
              /\ self.r_drys # None /\ self.rs # None /\ self.Nis # None /\ self.nr # None)

\* C6: for a Lognorm with integer bins n >= 1, with or without r_min and
\* r_max, the object has n+1 edges, n dry radii and n concentrations,
\* nr = n, dry_radii[i] = sqrt(edge[i]*edge[i+1]) * 1e-6 and
\* Nis[i] = 0.5*(edge[i+1]-edge[i])*(pdf(edge[i])+pdf(edge[i+1])) * 1e6.
C6_LognormBins ==
    (Built /\ DistType = "Lognorm" /\ IntBins /\ args.bins.n >= 1) =>
        LET n == args.bins.n IN
        /\ Len(Rs) = n + 1
        /\ Len(RDrys) = n /\ Len(Nis) = n /\ self.nr = Some(n)
        /\ \A i \in 1..n :
              /\ RDrys[i] = Scale(Sqrt(Mul(Rs[i], Rs[i + 1])), -6)
              /\ Nis[i] = Scale(Mul(Mul(Frac(1, 2), Sub(Rs[i + 1], Rs[i])),
                                    Add(Pdf(args.distribution, Rs[i]),
                                        Pdf(args.distribution, Rs[i + 1]))), 6)

C6_Witness ==
    /\ Built /\ DistType = "Lognorm" /\ IntBins /\ args.bins.n = 3
    /\ args.r_min = Some(FromInt(1)) /\ args.r_max = Some(FromInt(4096))
    /\ Rs = <<FromInt(1), FromInt(16), FromInt(256), FromInt(4096)>>
    /\ self.nr = Some(3)
    /\ RDrys[1] = Scale(Sqrt(FromInt(16)), -6)

\* C7: every constructed object has len(bin_edges) = nr + 1 with
\* nr = len(dry_radii) = len(number_concentrations).
C7_EdgesOneMoreThanBins ==
    Built =>
        /\ self.nr = Some(Len(RDrys))
        /\ Len(Nis) = Len(RDrys)
        /\ Len(Rs) = Len(RDrys) + 1

\* C8 as stated: every Lognorm input that constructs yields strictly
\* increasing positive edges and non-negative concentrations.
C8_AlwaysIncreasing ==
    (Built /\ DistType = "Lognorm") =>
        /\ StrictlyIncreasing(Rs)
        /\ \A i \in 1..Len(Rs) : Positive(Rs[i])
        /\ \A i \in 1..Len(Nis) : NonNegative(Nis[i])

\* the edges the caller determines are increasing: the default bracket,
\* 0 < r_min < r_max, or a strictly increasing positive edge sequence
IncreasingRequest ==
    IF IsEdgeSequence(args.bins)
    THEN LET given == heap[args.bins.ref].data
         IN  StrictlyIncreasing(given) /\ \A i \in 1..Len(given) : Positive(given[i])
    ELSE \/ (args.r_min = None /\ args.r_max = None)
         \/ (args.r_min # None /\ args.r_max # None
               /\ Positive(args.r_min[1]) /\ Less(args.r_min[1], args.r_max[1]))

\* C8 (amended): a Lognorm input that constructs and whose requested edges
\* are increasing (default bracket, 0 < r_min < r_max, or a strictly
\* increasing positive edge sequence) yields strictly increasing positive
\* edges and non-negative concentrations.
C8_IncreasingWhenRequested ==
    (Built /\ DistType = "Lognorm" /\ IncreasingRequest) =>
        /\ StrictlyIncreasing(Rs)
        /\ \A i \in 1..Len(Rs) : Positive(Rs[i])
        /\ \A i \in 1..Len(Nis) : NonNegative(Nis[i])

C8_Witness ==
    /\ Built /\ DistType = "Lognorm" /\ IntBins /\ args.bins.n = 2
    /\ args.r_min = Some(FromInt(1)) /\ args.r_max = Some(FromInt(4096))
    /\ Rs = <<FromInt(1), FromInt(64), FromInt(4096)>>
    /\ Len(Nis) = 2 /\ Positive(Nis[1]) /\ Positive(Nis[2])

\* C9: dist_to_conc returns for every rule string: the trapezoid formula
\* for "trapezoid", Simpson's for "simpson", width * pdf(midpoint) for any
\* other string; for a constant pdf c all rules give c * (r_max - r_min).
C9_QuadratureRules ==
    (Done /\ op = "dist_to_conc") =>
        LET d     == args.distribution
            lo    == args.r_min[1]
            hi    == args.r_max[1]
            width == Sub(hi, lo)
            mid   == Div(Add(hi, lo), FromInt(2))
            ends  == Add(Pdf(d, hi), Pdf(d, lo))
        IN  /\ exc = "None"
            /\ conc # None
            /\ args.rule = "trapezoid" => conc[1] = Div(Mul(width, ends), FromInt(2))
            /\ args.rule = "simpson" =>
                  conc[1] = Div(Mul(width, Add(ends, Mul(FromInt(4), Pdf(d, mid)))), FromInt(6))
            /\ args.rule \notin {"trapezoid", "simpson"} => conc[1] = Mul(width, Pdf(d, mid))
            /\ d.type = "Const" => conc[1] = Mul(d.Ns[1], width)

C9_Witness ==
    /\ Done /\ op = "dist_to_conc" /\ args.distribution.type = "Const"
    /\ args.rule = "simpson"
    /\ args.r_min = Some(FromInt(1)) /\ args.r_max = Some(FromInt(3))
    /\ conc = Some(FromInt(4))

\* C10: a construction attempt, successful or failing, leaves the caller's
\* arguments and every list and array the caller passed as they were.
C10_InputsUntouched ==
    [][(pc = "call" /\ pc' = "done" /\ Ctor) =>
          /\ args' = args
          /\ \A r \in 1..Len(heap) : heap'[r] = heap[r]]_vars

C10_Witness ==
    /\ Built /\ DistType = "dict"
    /\ heap[args.distribution.Nis].kind = "ndarray"
    /\ GivenNis = <<FromInt(1000)>>
    /\ Nis = <<FromInt(1000000000)>>
    /\ self.Nis[1] # args.distribution.Nis

====
